---- MODULE Spec2Model ----
(***************************************************************************)
(* Model of programs/bloodchain-program/src/lib.rs: the Donation record    *)
(* codec (impl Pack for Donation) and the donation-history store kept in   *)
(* one account's data buffer (process_instruction, add_donation,           *)
(* retrieve_donation_history, get_donation_history, pack_donation_history, *)
(* unpack_donation).                                                       *)
(*                                                                         *)
(* Byte slices are sequences over 0..255.  A call that panics (slice index *)
(* out of range, copy_from_slice on slices of different lengths) has the   *)
(* outcome "Panic".  An instruction's outcome carries the account data as  *)
(* the call itself leaves it.                                              *)
(***************************************************************************)
EXTENDS Integers, Sequences, FiniteSets, TLC

\* ------------------------------------------------------------------------
\* Program constants
\* ------------------------------------------------------------------------
\* const LEN: usize = 40
LEN == 40
\* donor_name: [u8; 32]
DONOR_NAME_LEN == 32
\* blood_type: [u8; 3]
BLOOD_TYPE_LEN == 3
\* date: u64, eight bytes in to_le_bytes / from_le_bytes
DATE_LEN == 8

\* ------------------------------------------------------------------------
\* Bounds of the model
\* ------------------------------------------------------------------------
\* account buffers of 0..MaxSlots slots of LEN bytes (and unaligned ones)
MaxSlots == 2
\* at most MaxRecords decodable records are submitted to add_donation
MaxRecords == 2

\* ------------------------------------------------------------------------
\* Byte-slice helpers
\* ------------------------------------------------------------------------
Zeros(n) == [i \in 1..n |-> 0]

Fill(n, b) == [i \in 1..n |-> b]

\* s[a..b] of Rust (0-based, b exclusive); the caller checks InRange first
Slice(s, a, b) == SubSeq(s, a + 1, b)

\* s[a..b] does not panic
InRange(s, a, b) == a <= b /\ b <= Len(s)

\* u64::to_le_bytes, least significant byte first
RECURSIVE le_bytes(_, _)
le_bytes(d, k) == IF k = 0 THEN << >> ELSE << d % 256 >> \o le_bytes(d \div 256, k - 1)

to_le_bytes(d) == le_bytes(d, DATE_LEN)

\* u64::from_le_bytes
RECURSIVE from_le_bytes(_)
from_le_bytes(bs) ==
    IF bs = << >> THEN 0 ELSE Head(bs) + 256 * from_le_bytes(Tail(bs))

\* ------------------------------------------------------------------------
\* Donation and its codec
\* ------------------------------------------------------------------------
Donation(n, b, d) == [donor_name |-> n, blood_type |-> b, date |-> d]

\* placeholder carried by a failed decode
NoDonation == Donation(<< >>, << >>, 0)

Res(r, v) == [res |-> r, val |-> v]

\* Donation::unpack_from_slice: src[..32] and src[32..35] panic when out of
\* range; src[35..].try_into() into [u8; 8] is an Err, mapped to
\* InvalidInstructionData, unless exactly DATE_LEN bytes remain.
unpack_from_slice(src) ==
    IF ~InRange(src, 0, DONOR_NAME_LEN) THEN Res("Panic", NoDonation)
    ELSE IF ~InRange(src, DONOR_NAME_LEN, DONOR_NAME_LEN + BLOOD_TYPE_LEN)
         THEN Res("Panic", NoDonation)
    ELSE IF ~InRange(src, DONOR_NAME_LEN + BLOOD_TYPE_LEN, Len(src))
         THEN Res("Panic", NoDonation)
    ELSE IF Len(src) - (DONOR_NAME_LEN + BLOOD_TYPE_LEN) # DATE_LEN
         THEN Res("InvalidInstructionData", NoDonation)
    ELSE Res("Ok",
             Donation(Slice(src, 0, DONOR_NAME_LEN),
                      Slice(src, DONOR_NAME_LEN, DONOR_NAME_LEN + BLOOD_TYPE_LEN),
                      from_le_bytes(Slice(src, DONOR_NAME_LEN + BLOOD_TYPE_LEN, Len(src)))))

\* Pack::unpack_unchecked: the length test against LEN, then unpack_from_slice
unpack_unchecked(input) ==
    IF Len(input) # LEN THEN Res("InvalidArgument", NoDonation)
    ELSE unpack_from_slice(input)

\* Donation::is_initialized
is_initialized(donation) == TRUE

\* Pack::unpack, as called by get_donation_history
unpack(input) ==
    LET value == unpack_unchecked(input) IN
    IF value.res # "Ok" THEN value
    ELSE IF is_initialized(value.val) THEN value
    ELSE Res("UninitializedAccount", NoDonation)

\* Donation::pack_into_slice: three copy_from_slice calls in order; the
\* result carries dst as the call leaves it, also when a later copy panics.
pack_into_slice(self, dst) ==
    IF ~InRange(dst, 0, DONOR_NAME_LEN) THEN [res |-> "Panic", dst |-> dst]
    ELSE
    LET d1 == self.donor_name \o Slice(dst, DONOR_NAME_LEN, Len(dst)) IN
    IF ~InRange(dst, DONOR_NAME_LEN, DONOR_NAME_LEN + BLOOD_TYPE_LEN)
    THEN [res |-> "Panic", dst |-> d1]
    ELSE
    LET d2 == Slice(d1, 0, DONOR_NAME_LEN) \o self.blood_type
              \o Slice(d1, DONOR_NAME_LEN + BLOOD_TYPE_LEN, Len(d1)) IN
    IF Len(dst) - (DONOR_NAME_LEN + BLOOD_TYPE_LEN) # Len(to_le_bytes(self.date))
    THEN [res |-> "Panic", dst |-> d2]
    ELSE [res |-> "Ok",
          dst |-> Slice(d2, 0, DONOR_NAME_LEN + BLOOD_TYPE_LEN) \o to_le_bytes(self.date)]

\* ------------------------------------------------------------------------
\* History store
\* ------------------------------------------------------------------------
\* unpack_donation: data[..32] and data[32..35] panic when out of range;
\* data[35..].try_into() into [u8; 8] is an Err, mapped to
\* InvalidInstructionData, unless exactly DATE_LEN bytes remain.
unpack_donation(data) ==
    IF ~InRange(data, 0, DONOR_NAME_LEN) THEN Res("Panic", NoDonation)
    ELSE IF ~InRange(data, DONOR_NAME_LEN, DONOR_NAME_LEN + BLOOD_TYPE_LEN)
         THEN Res("Panic", NoDonation)
    ELSE IF ~InRange(data, DONOR_NAME_LEN + BLOOD_TYPE_LEN, Len(data))
         THEN Res("Panic", NoDonation)
    ELSE IF Len(data) - (DONOR_NAME_LEN + BLOOD_TYPE_LEN) # DATE_LEN
         THEN Res("InvalidInstructionData", NoDonation)
    ELSE Res("Ok",
             Donation(Slice(data, 0, DONOR_NAME_LEN),
                      Slice(data, DONOR_NAME_LEN, DONOR_NAME_LEN + BLOOD_TYPE_LEN),
                      from_le_bytes(Slice(data, DONOR_NAME_LEN + BLOOD_TYPE_LEN, Len(data)))))

\* pack_donation_history: donor_name, blood_type and date.to_le_bytes() of
\* every donation, in order
RECURSIVE pack_donation_history(_)
pack_donation_history(history) ==
    IF history = << >> THEN << >>
    ELSE Head(history).donor_name \o Head(history).blood_type
         \o to_le_bytes(Head(history).date) \o pack_donation_history(Tail(history))

\* a scan loop that skips a window it cannot decode and moves on by one
\* byte instead of LEN
RECURSIVE scan_from_by_one(_, _, _, _)
scan_from_by_one(data, index, history, steps) ==
    IF index < Len(data)
    THEN IF ~InRange(data, index, index + LEN)
         THEN [res |-> "Panic", history |-> history, steps |-> steps]
         ELSE LET donation == unpack(Slice(data, index, index + LEN)) IN
              IF donation.res # "Ok"
              THEN scan_from_by_one(data, index + 1, history, steps + 1)
              ELSE scan_from_by_one(data, index + 1, Append(history, donation.val), steps + 1)
    ELSE [res |-> "Ok", history |-> history, steps |-> steps]

\* the while loop of get_donation_history from offset index on; steps counts
\* the Donation::unpack calls made
RECURSIVE scan_from(_, _, _, _)
scan_from(data, index, history, steps) ==
    IF index < Len(data)
    THEN IF ~InRange(data, index, index + LEN)
         THEN [res |-> "Panic", history |-> history, steps |-> steps]
         ELSE LET donation == unpack(Slice(data, index, index + LEN)) IN
              IF donation.res # "Ok"
              THEN [res |-> donation.res, history |-> history, steps |-> steps + 1]
              ELSE scan_from(data, index + LEN, Append(history, donation.val), steps + 1)
    ELSE [res |-> "Ok", history |-> history, steps |-> steps]

\* get_donation_history
get_donation_history(data) == scan_from(data, 0, << >>, 0)

\* a copy that writes the bytes both slices have and never panics
copy_from_slice_prefix(dst, src) ==
    LET n == IF Len(dst) < Len(src) THEN Len(dst) ELSE Len(src) IN
    [res |-> "Ok", dst |-> SubSeq(src, 1, n) \o SubSeq(dst, n + 1, Len(dst))]

\* <[u8]>::copy_from_slice: panics unless both slices have the same length
copy_from_slice(dst, src) ==
    IF Len(dst) # Len(src) THEN [res |-> "Panic", dst |-> dst]
    ELSE [res |-> "Ok", dst |-> src]

\* outcome of one instruction: the ProgramResult (or "Panic"), the account
\* data it leaves, the history it logged and the decode steps of its scan
Outcome(r, data, log, steps) == [res |-> r, data |-> data, log |-> log, steps |-> steps]

\* an add_donation that decodes the payload before it looks at accounts
add_donation_decode_first(accounts, acct, data) ==
    LET donation == unpack_donation(data) IN
    IF donation.res # "Ok" THEN Outcome(donation.res, acct, << >>, 0)
    ELSE IF accounts = << >> THEN Outcome("NotEnoughAccountKeys", acct, << >>, 0)
    ELSE
    LET blood_donation_history == get_donation_history(acct) IN
    IF blood_donation_history.res # "Ok"
    THEN Outcome(blood_donation_history.res, acct, << >>, blood_donation_history.steps)
    ELSE
    LET blood_donation_history_data ==
            pack_donation_history(Append(blood_donation_history.history, donation.val))
        written == copy_from_slice(acct, blood_donation_history_data)
    IN  IF written.res # "Ok"
        THEN Outcome(written.res, acct, << >>, blood_donation_history.steps)
        ELSE Outcome("Ok", written.dst, << >>, blood_donation_history.steps)

\* an add_donation that copies the payload into the account data before it
\* decodes the payload and scans the account
add_donation_write_first(accounts, acct, data) ==
    IF accounts = << >> THEN Outcome("NotEnoughAccountKeys", acct, << >>, 0)
    ELSE
    LET dirty == copy_from_slice_prefix(acct, data).dst
        donation == unpack_donation(data)
    IN
    IF donation.res # "Ok" THEN Outcome(donation.res, dirty, << >>, 0)
    ELSE
    LET blood_donation_history == get_donation_history(dirty) IN
    IF blood_donation_history.res # "Ok"
    THEN Outcome(blood_donation_history.res, dirty, << >>, blood_donation_history.steps)
    ELSE Outcome("Ok", dirty, << >>, blood_donation_history.steps)

\* add_donation(accounts, data) on an account holding acct
add_donation(accounts, acct, data) ==
    IF accounts = << >> THEN Outcome("NotEnoughAccountKeys", acct, << >>, 0)
    ELSE
    LET donation == unpack_donation(data) IN
    IF donation.res # "Ok" THEN Outcome(donation.res, acct, << >>, 0)
    ELSE
    LET blood_donation_history == get_donation_history(acct) IN
    IF blood_donation_history.res # "Ok"
    THEN Outcome(blood_donation_history.res, acct, << >>, blood_donation_history.steps)
    ELSE
    LET blood_donation_history_data ==
            pack_donation_history(Append(blood_donation_history.history, donation.val))
        written == copy_from_slice(acct, blood_donation_history_data)
    IN  IF written.res # "Ok"
        THEN Outcome(written.res, acct, << >>, blood_donation_history.steps)
        ELSE Outcome("Ok", written.dst, << >>, blood_donation_history.steps)

\* a retrieve_donation_history that consumes the window it read first
retrieve_donation_history_drain(accounts, acct) ==
    IF accounts = << >> THEN Outcome("NotEnoughAccountKeys", acct, << >>, 0)
    ELSE
    LET blood_donation_history == get_donation_history(acct)
        rest == IF Len(acct) < LEN THEN << >> ELSE Slice(acct, LEN, Len(acct))
    IN
    IF blood_donation_history.res # "Ok"
    THEN Outcome(blood_donation_history.res, rest, << >>, blood_donation_history.steps)
    ELSE Outcome("Ok", rest, blood_donation_history.history, blood_donation_history.steps)

\* a retrieve_donation_history that marks the account as read in its first
\* byte
retrieve_donation_history_mark(accounts, acct) ==
    IF accounts = << >> THEN Outcome("NotEnoughAccountKeys", acct, << >>, 0)
    ELSE
    LET blood_donation_history == get_donation_history(acct)
        marked == IF acct = << >> THEN acct ELSE << 1 >> \o Tail(acct)
    IN
    IF blood_donation_history.res # "Ok"
    THEN Outcome(blood_donation_history.res, marked, << >>, blood_donation_history.steps)
    ELSE Outcome("Ok", marked, blood_donation_history.history, blood_donation_history.steps)

\* retrieve_donation_history(accounts): logs one line per donation scanned
retrieve_donation_history(accounts, acct) ==
    IF accounts = << >> THEN Outcome("NotEnoughAccountKeys", acct, << >>, 0)
    ELSE
    LET blood_donation_history == get_donation_history(acct) IN
    IF blood_donation_history.res # "Ok"
    THEN Outcome(blood_donation_history.res, acct, << >>, blood_donation_history.steps)
    ELSE Outcome("Ok", acct, blood_donation_history.history, blood_donation_history.steps)

\* a dispatch that hands add_donation the whole instruction_data, tag
\* included, and sends every other non-empty input to the scan
process_instruction_no_skip(accounts, acct, instruction_data) ==
    IF instruction_data = << >> THEN Outcome("InvalidInstructionData", acct, << >>, 0)
    ELSE IF instruction_data[1] = 0 THEN add_donation(accounts, acct, instruction_data)
    ELSE retrieve_donation_history(accounts, acct)

\* process_instruction: dispatch on the first byte of instruction_data
process_instruction(accounts, acct, instruction_data) ==
    IF instruction_data = << >> THEN Outcome("InvalidInstructionData", acct, << >>, 0)
    ELSE IF instruction_data[1] = 0 THEN add_donation(accounts, acct, Tail(instruction_data))
    ELSE IF instruction_data[1] = 1 THEN retrieve_donation_history(accounts, acct)
    ELSE Outcome("InvalidInstructionData", acct, << >>, 0)

\* ------------------------------------------------------------------------
\* Inputs
\* ------------------------------------------------------------------------
\* bytes one record takes in pack_donation_history and unpack_donation
RecordBytes == DONOR_NAME_LEN + BLOOD_TYPE_LEN + DATE_LEN

\* "Alice" padded to 32 bytes, "O+ "
Alice == << 65, 108, 105, 99, 101 >> \o Zeros(DONOR_NAME_LEN - 5)
OPlus == << 79, 43, 32 >>

\* records submitted to the store
StoreRecords ==
    { Donation(Alice, OPlus, 1700000000),
      Donation(Zeros(DONOR_NAME_LEN), Zeros(BLOOD_TYPE_LEN), 0),
      Donation(Fill(DONOR_NAME_LEN, 255), OPlus, 258) }

\* records given to the codec
CodecRecords ==
    { Donation(n, b, d) : n \in { Alice, Zeros(DONOR_NAME_LEN), Fill(DONOR_NAME_LEN, 255) },
                          b \in { OPlus, Zeros(BLOOD_TYPE_LEN) },
                          d \in { 0, 258, 1700000000 } }

\* lengths of raw record payloads and of codec slices, around the field
\* boundaries, LEN and RecordBytes
SliceLens ==
    { 0, DONOR_NAME_LEN - 1, DONOR_NAME_LEN + BLOOD_TYPE_LEN - 1,
      DONOR_NAME_LEN + BLOOD_TYPE_LEN, LEN - 1, LEN, RecordBytes, RecordBytes + 1 }

\* the first n bytes of record r's fields followed by one more byte
Raw(r, n) == SubSeq(pack_donation_history(<< r >>) \o << 1 >>, 1, n)

Payloads == { Raw(r, n) : r \in StoreRecords, n \in SliceLens }

\* instruction_data: empty, add (tag 0) with a payload, retrieve (tag 1),
\* unknown tags
AddInstructions == { << 0 >> \o p : p \in Payloads }
RetrieveInstructions == { << 1 >>, << 1, 7 >> }
InvalidInstructions == { << >>, << 2 >>, << 255 >> \o Raw(Donation(Alice, OPlus, 0), RecordBytes) }

\* the accounts slice: empty, or the blood donation history account first
AccountLists == { << >>, << "blood_donation_account" >> }

\* lengths of the account's data buffer
Capacities ==
    { LEN * k : k \in 0..MaxSlots } \cup { RecordBytes * k : k \in 1..MaxSlots }
    \cup { LEN - 1, LEN + 1 }

\* byte slices handed to the decoders
SliceInputs ==
    { Raw(r, n) : r \in CodecRecords, n \in SliceLens }
    \cup { Fill(n, 255) : n \in { LEN - 1, LEN } }

\* ------------------------------------------------------------------------
\* State
\* ------------------------------------------------------------------------
VARIABLES
    account_data,      \* blood_donation_account.data
    accounts,          \* accounts of the last instruction
    instruction_data,  \* instruction_data of the last instruction
    result,            \* its ProgramResult, "Panic" when it aborted, "None" before any
    log,               \* the donations its msg! lines listed
    decode_steps,      \* Donation::unpack calls of its scan
    appended,          \* donations of the add_donation calls that returned Ok
    submitted,         \* donations add_donation decoded from its payload
    prev_scan,         \* outcome of the latest earlier scan with no add_donation
                       \* returning Ok since
    codec              \* last codec call: operation, inputs, outcome

vars == << account_data, accounts, instruction_data, result, log, decode_steps,
           appended, submitted, prev_scan, codec >>

store_vars == << account_data, accounts, instruction_data, result, log, decode_steps,
                 appended, submitted, prev_scan >>

CodecCall(op, recs, src, r, dst, val) ==
    [op |-> op, recs |-> recs, src |-> src, res |-> r, dst |-> dst, val |-> val]

\* outcome of a scan: result, donations listed, decode steps taken
ScanOutcome(r, l, n) == [res |-> r, log |-> l, steps |-> n]

NoScan == ScanOutcome("None", << >>, 0)

Init ==
    /\ account_data \in { Zeros(c) : c \in Capacities }
    /\ accounts = << >>
    /\ instruction_data = << >>
    /\ result = "None"
    /\ log = << >>
    /\ decode_steps = 0
    /\ appended = << >>
    /\ submitted = << >>
    /\ prev_scan = NoScan
    /\ codec = CodecCall("none", << >>, << >>, "None", << >>, NoDonation)

\* ------------------------------------------------------------------------
\* Instructions
\* ------------------------------------------------------------------------
IsAdd(ix) == ix # << >> /\ ix[1] = 0
IsRetrieve(ix) == ix # << >> /\ ix[1] = 1

\* one call of the entrypoint
ProcessInstruction(accts, ix) ==
    LET out == process_instruction(accts, account_data, ix)
        decoded == IF IsAdd(ix) /\ accts # << >>
                   THEN unpack_donation(Tail(ix))
                   ELSE Res("None", NoDonation)
    IN  /\ decoded.res = "Ok" => Len(submitted) < MaxRecords
        /\ account_data' = out.data
        /\ accounts' = accts
        /\ instruction_data' = ix
        /\ result' = out.res
        /\ log' = out.log
        /\ decode_steps' = out.steps
        /\ submitted' = IF decoded.res = "Ok" THEN Append(submitted, decoded.val)
                        ELSE submitted
        /\ appended' = IF IsAdd(ix) /\ out.res = "Ok" THEN Append(appended, decoded.val)
                       ELSE appended
        /\ prev_scan' = IF result # "None" /\ IsRetrieve(instruction_data) /\ accounts # << >>
                        THEN ScanOutcome(result, log, decode_steps)
                        ELSE IF IsAdd(instruction_data) /\ result = "Ok" THEN NoScan
                        ELSE prev_scan
        /\ UNCHANGED codec

AddDonation == \E accts \in AccountLists, ix \in AddInstructions : ProcessInstruction(accts, ix)

RetrieveDonationHistory ==
    \E accts \in AccountLists, ix \in RetrieveInstructions : ProcessInstruction(accts, ix)

InvalidInstruction ==
    \E accts \in AccountLists, ix \in InvalidInstructions : ProcessInstruction(accts, ix)

Next == AddDonation \/ RetrieveDonationHistory \/ InvalidInstruction

Spec == Init /\ [][Next]_vars

\* account data of any content: the scan reads whatever account it is given
BufferInputs ==
    { Zeros(c) : c \in Capacities }
    \cup { Fill(LEN - 1, 255), Fill(LEN, 255),
           Raw(Donation(Alice, OPlus, 1700000000), LEN),
           Raw(Donation(Alice, OPlus, 1700000000), RecordBytes),
           Raw(Donation(Alice, OPlus, 1700000000), LEN) \o Fill(LEN, 255) }

BufferInit ==
    /\ account_data \in BufferInputs
    /\ accounts = << >>
    /\ instruction_data = << >>
    /\ result = "None"
    /\ log = << >>
    /\ decode_steps = 0
    /\ appended = << >>
    /\ submitted = << >>
    /\ prev_scan = NoScan
    /\ codec = CodecCall("none", << >>, << >>, "None", << >>, NoDonation)

BufferSpec == BufferInit /\ [][Next]_vars

\* ------------------------------------------------------------------------
\* Codec calls
\* ------------------------------------------------------------------------
\* pack_into_slice of r into a fresh slice of n bytes
PackIntoSlice ==
    \E r \in CodecRecords, n \in SliceLens :
        LET p == pack_into_slice(r, Zeros(n)) IN
        /\ codec' = CodecCall("pack_into_slice", << r >>, Zeros(n), p.res, p.dst, NoDonation)
        /\ UNCHANGED store_vars

\* Donation::unpack_from_slice(src)
UnpackFromSlice ==
    \E src \in SliceInputs :
        LET u == unpack_from_slice(src) IN
        /\ codec' = CodecCall("unpack_from_slice", << >>, src, u.res, src, u.val)
        /\ UNCHANGED store_vars

\* Donation::unpack(src)
Unpack ==
    \E src \in SliceInputs :
        LET u == unpack(src) IN
        /\ codec' = CodecCall("unpack", << >>, src, u.res, src, u.val)
        /\ UNCHANGED store_vars

\* pack_into_slice of r into a slice of n bytes, then unpack_from_slice of
\* that slice
RoundTrip ==
    \E r \in CodecRecords, n \in SliceLens :
        LET p == pack_into_slice(r, Zeros(n))
            u == unpack_from_slice(p.dst)
        IN
        /\ codec' = IF p.res # "Ok"
                    THEN CodecCall("round_trip", << r >>, Zeros(n), p.res, p.dst, NoDonation)
                    ELSE CodecCall("round_trip", << r >>, Zeros(n), u.res, p.dst, u.val)
        /\ UNCHANGED store_vars

\* pack_donation_history(history)
PackDonationHistory ==
    \E k \in 0..MaxRecords : \E history \in [1..k -> StoreRecords] :
        /\ codec' = CodecCall("pack_donation_history", history, << >>, "Ok",
                              pack_donation_history(history), NoDonation)
        /\ UNCHANGED store_vars

CodecNext == PackIntoSlice \/ UnpackFromSlice \/ Unpack \/ RoundTrip \/ PackDonationHistory

\* the codec calls start from the account of Initialize (space = 40)
CodecInit == Init /\ account_data = Zeros(LEN)

CodecSpec == CodecInit /\ [][CodecNext]_vars

\* ------------------------------------------------------------------------
\* Properties
\* ------------------------------------------------------------------------
\* the ProgramError values the program returns
ProgramErrors ==
    { "InvalidInstructionData", "InvalidArgument", "NotEnoughAccountKeys",
      "UninitializedAccount" }

\* length of the prefix written by the successful appends, LEN bytes each
occupied == LEN * Len(appended)

\* the last instruction reached add_donation / retrieve_donation_history with
\* the account present
AddedLast == result # "None" /\ IsAdd(instruction_data) /\ accounts # << >>
RetrievedLast == result # "None" /\ IsRetrieve(instruction_data) /\ accounts # << >>

\* the last add_donation payload was one unpack_donation decodes
DecodableLast == AddedLast /\ unpack_donation(Tail(instruction_data)).res = "Ok"

\* C1: records appended in order to an initially empty buffer of sufficient
\* capacity are all accepted, and a following scan returns exactly those
\* records in that order.
C1_AppendScanConsistency ==
    (submitted # << >> /\ LEN * Len(submitted) <= Len(account_data))
        => /\ appended = submitted
           /\ RetrievedLast => (result = "Ok" /\ log = submitted)

\* C2: packing any record into a LEN-sized slice and unpacking that slice
\* succeeds and gives back the record, field for field.
C2_RoundTrip ==
    (codec.op = "round_trip" /\ Len(codec.src) = LEN)
        => /\ codec.res = "Ok"
           /\ codec.val = codec.recs[1]

\* C3: encoding never fails and yields exactly LEN bytes per record:
\* pack_into_slice fills a LEN-sized slice with donor_name in [0,32),
\* blood_type in [32,35) and the date's little-endian bytes up to offset LEN,
\* and pack_donation_history gives LEN * n bytes for n records.
C3_EncodedSize ==
    /\ (codec.op = "pack_into_slice" /\ Len(codec.src) = LEN)
          => /\ codec.res = "Ok"
             /\ Len(codec.dst) = LEN
             /\ Slice(codec.dst, 0, DONOR_NAME_LEN) = codec.recs[1].donor_name
             /\ Slice(codec.dst, DONOR_NAME_LEN, DONOR_NAME_LEN + BLOOD_TYPE_LEN)
                    = codec.recs[1].blood_type
             /\ Slice(codec.dst, DONOR_NAME_LEN + BLOOD_TYPE_LEN, LEN)
                    = SubSeq(to_le_bytes(codec.recs[1].date), 1,
                             LEN - DONOR_NAME_LEN - BLOOD_TYPE_LEN)
    /\ codec.op = "pack_donation_history" => Len(codec.dst) = LEN * Len(codec.recs)

\* C4: an instruction that fails, for whatever reason, leaves the account
\* data byte for byte as it was; the data changes only in an add_donation
\* that returns Ok.
C4_FailureAtomicity ==
    [][ /\ result' # "Ok" => account_data' = account_data
        /\ account_data' # account_data => (IsAdd(instruction_data') /\ result' = "Ok")
      ]_vars

\* a decodable add_donation on a buffer of at least LEN bytes has failed
C4_Witness ==
    /\ DecodableLast
    /\ result \in ProgramErrors
    /\ Len(account_data) >= LEN

\* C5: an append succeeds when at least LEN bytes are free beyond the
\* occupied prefix, and fails with a capacity error value otherwise.
C5_CapacityBoundary ==
    [][ DecodableLast' =>
            IF Len(account_data) - occupied >= LEN
            THEN result' = "Ok"
            ELSE result' \in ProgramErrors
      ]_vars

\* C6: decode returns an error value for every input shorter than LEN bytes
\* and succeeds for every input of LEN bytes, whatever the bytes are.
C6_DecodeLength ==
    codec.op \in { "unpack_from_slice", "unpack" }
        => /\ Len(codec.src) < LEN => codec.res \in ProgramErrors
           /\ Len(codec.src) = LEN => codec.res = "Ok"

C8_BufferLayout ==
    LET content == pack_donation_history(appended) IN
    /\ Len(content) = occupied
    /\ Len(content) <= Len(account_data)
    /\ Slice(account_data, 0, Len(content)) = content
    /\ \A i \in (Len(content) + 1)..Len(account_data) : account_data[i] = 0

\* records were submitted to add_donation and a scan of the buffer followed
C8_Witness ==
    /\ RetrievedLast
    /\ submitted # << >>
    /\ Len(account_data) >= LEN

\* C9: a scan decodes floor(occupied / LEN) records and stops at the end of
\* the occupied prefix: it takes no decode step in the unused tail, and a
\* successful scan lists exactly that many records.
C9_RecordCount ==
    RetrievedLast
        => /\ decode_steps = occupied \div LEN
           /\ result = "Ok" => Len(log) = occupied \div LEN

\* C10: a scan of a buffer nothing was appended to succeeds with the empty
\* sequence, for every capacity.
C10_EmptyScan ==
    (RetrievedLast /\ appended = << >>) => (result = "Ok" /\ log = << >>)

\* C11: an add_donation whose payload (instruction_data after the tag byte)
\* is shorter than LEN bytes, the empty one included, returns an error value
\* and does not abort; a payload of at least LEN bytes is decoded.
C11_ShortPayload ==
    AddedLast
        => /\ Len(Tail(instruction_data)) < LEN => result \in ProgramErrors
           /\ Len(Tail(instruction_data)) >= LEN
                 => unpack_donation(Tail(instruction_data)).res = "Ok"

\* C12: a scan of, or a decodable append to, a buffer whose length is not a
\* multiple of LEN returns an error value: it neither succeeds on a
\* truncated buffer nor aborts without a value.
C12_UnalignedBuffer ==
    ((RetrievedLast \/ DecodableLast) /\ Len(account_data) % LEN # 0)
        => result \in ProgramErrors

\* C13: a scan gives the same outcome (result, donations listed in the same
\* order, decode steps) as the latest scan before it when no add_donation
\* succeeded in between.
C13_ScanIdempotence ==
    (RetrievedLast /\ prev_scan # NoScan)
        => ScanOutcome(result, log, decode_steps) = prev_scan

\* a non-empty buffer has been scanned, and scanned again
C13_Witness ==
    /\ RetrievedLast
    /\ prev_scan # NoScan
    /\ Len(account_data) >= LEN

\* C14: every scan, in any serialised interleaving of appends and scans,
\* returns exactly the records of the appends that completed before it, whole
\* records only.
C14_WholeRecords ==
    RetrievedLast => (result = "Ok" /\ log = appended)

\* C15: process_instruction returns InvalidInstructionData and leaves the
\* buffer alone when instruction_data is empty or its first byte is neither
\* 0 nor 1; first byte 0 runs add_donation on instruction_data[1..], first
\* byte 1 runs retrieve_donation_history; only the add path can change the
\* buffer.
C15_Dispatch ==
    [][ LET ix == instruction_data'
            got == Outcome(result', account_data', log', decode_steps')
        IN  /\ (ix = << >> \/ (~IsAdd(ix) /\ ~IsRetrieve(ix)))
                  => got = Outcome("InvalidInstructionData", account_data, << >>, 0)
            /\ IsAdd(ix) => got = add_donation(accounts', account_data, Tail(ix))
            /\ IsRetrieve(ix) => got = retrieve_donation_history(accounts', account_data)
            /\ account_data' # account_data => IsAdd(ix)
      ]_vars

\* an instruction with an unknown tag and a full record behind it was
\* rejected with the account present
C15_Witness ==
    /\ result = "InvalidInstructionData"
    /\ accounts # << >>
    /\ Len(instruction_data) > LEN
    /\ instruction_data[1] \notin { 0, 1 }

\* C16: retrieve_donation_history leaves every byte of the account data as it
\* was, whether it succeeds, fails or aborts, whatever the buffer holds.
C16_ScanReadOnly ==
    [][ IsRetrieve(instruction_data') => account_data' = account_data ]_vars

\* a buffer with non-zero bytes has been scanned
C16_Witness ==
    /\ RetrievedLast
    /\ \E i \in 1..Len(account_data) : account_data[i] # 0

\* C17: the scan ends after at most ceil(L / LEN) decode steps on a buffer
\* of L bytes.
C17_ScanTermination ==
    result # "None" => decode_steps * LEN < Len(account_data) + LEN

\* a scan of a buffer longer than one slot has ended after a decode step
C17_Witness ==
    /\ RetrievedLast
    /\ decode_steps >= 1
    /\ Len(account_data) > LEN

\* C18: with an empty accounts list add_donation and
\* retrieve_donation_history return NotEnoughAccountKeys without decoding
\* the payload, scanning or changing the buffer.
C18_MissingAccount ==
    [][ (accounts' = << >> /\ (IsAdd(instruction_data') \/ IsRetrieve(instruction_data')))
            => /\ result' = "NotEnoughAccountKeys"
               /\ decode_steps' = 0
               /\ log' = << >>
               /\ account_data' = account_data
      ]_vars

\* an add_donation with no account and a payload unpack_donation would abort
\* on has returned NotEnoughAccountKeys
C18_Witness ==
    /\ accounts = << >>
    /\ IsAdd(instruction_data)
    /\ Len(instruction_data) <= DONOR_NAME_LEN
    /\ result = "NotEnoughAccountKeys"

====
